---- MODULE Spec2Model ----
(***************************************************************************)
(* Model of the delivery-delay mailer: SaaSMailer (mailer_logic.py) and    *)
(* the analyse / dispatch / history handlers of the Streamlit front end    *)
(* (app.py).                                                               *)
(***************************************************************************)
EXTENDS Integers, Sequences, FiniteSets, TLC

\* ------------------------------------------------------------------ bounds
\* Rows of an uploaded order table.
MaxRows == 2
\* Dispatch runs (clicks of the send button) in one behaviour.
MaxRuns == 2
\* Rows of a roster handed to get_partner_email on its own.
MaxRoster == 2
\* Lines of a text handed to markdown_to_html on its own.
MaxMdLines == 3

\* ------------------------------------------------------------ Python values
\* A missing cell of a pandas column (float nan), as it appears in a
\* text-valued column, and Python's None.
NaN == "<NaN>"
None == "<None>"

\* Values of a 협력사코드 cell.  s is a string as its sequence of characters,
\* n an integer (the integer part of a float), f the fractional digit of a
\* float.
PyString(s) == [t |-> "str", n |-> 0, f |-> 0, s |-> s]
PyInt(n) == [t |-> "int", n |-> n, f |-> 0, s |-> <<>>]
PyFloat(n, f) == [t |-> "float", n |-> n, f |-> f, s |-> <<>>]
NaNCode == [t |-> "nan", n |-> 0, f |-> 0, s |-> <<>>]
NoneCode == [t |-> "none", n |-> 0, f |-> 0, s |-> <<>>]

DigitChars == <<"0", "1", "2", "3", "4", "5", "6", "7", "8", "9">>

RECURSIVE Digits(_)
Digits(n) ==
    IF n < 10 THEN <<DigitChars[n + 1]>>
    ELSE Digits(n \div 10) \o <<DigitChars[(n % 10) + 1]>>

\* str(v) of Python, and of pandas' astype(str) on one cell.
PyStr(v) ==
    CASE v.t = "str" -> v.s
      [] v.t = "int" -> Digits(v.n)
      [] v.t = "float" -> Digits(v.n) \o <<".">> \o Digits(v.f)
      [] v.t = "nan" -> <<"n", "a", "n">>
      [] OTHER -> <<"N", "o", "n", "e">>

\* bool(v) of Python: the test `and partner_code`.
Truthy(v) ==
    CASE v.t = "str" -> v.s # <<>>
      [] v.t = "int" -> v.n # 0
      [] v.t = "float" -> ~(v.n = 0 /\ v.f = 0)
      [] v.t = "nan" -> TRUE
      [] OTHER -> FALSE

\* s.split('.')[0]
RECURSIVE SplitDot0(_)
SplitDot0(s) ==
    IF s = <<>> THEN <<>>
    ELSE IF Head(s) = "." THEN <<>>
    ELSE <<Head(s)>> \o SplitDot0(Tail(s))

\* == on a text column: a missing cell equals nothing.
NameEq(a, b) == a # NaN /\ b # NaN /\ a = b

\* --------------------------------------------------------- address resolver
\* The code side of the fallback comparison, as written.
CodeKey(v) == SplitDot0(PyStr(v))

\* A variant that compares the roster's code cells without normalising them.
RosterCodeKeyRaw(v) == PyStr(v)
RosterCodeKey(v) == CodeKey(v)

\* A variant that looks the partner up by code before looking by name.
get_partner_email_code_first(mail_list, partner_name, partner_code) ==
    LET p_code_str == CodeKey(partner_code)
        ByCode(row) == RosterCodeKey(row.code) = p_code_str
        ByName(row) == NameEq(row.name, partner_name)
        byCode == IF Truthy(partner_code) THEN SelectSeq(mail_list, ByCode) ELSE <<>>
        result == IF byCode = <<>> THEN SelectSeq(mail_list, ByName) ELSE byCode
    IN  IF result # <<>> THEN result[1].email ELSE None

get_partner_email(mail_list, partner_name, partner_code) ==
    LET ByName(row) == NameEq(row.name, partner_name)
        p_code_str == CodeKey(partner_code)
        ByCode(row) == RosterCodeKey(row.code) = p_code_str
        byName == SelectSeq(mail_list, ByName)
        result == IF byName = <<>> /\ Truthy(partner_code)
                  THEN SelectSeq(mail_list, ByCode)
                  ELSE byName
    IN  IF result # <<>> THEN result[1].email ELSE None

\* ------------------------------------------------------------- input tables
\* The columns of the order table: partner code, partner name, item code,
\* item name, variant name, order number, tracking number, delay
\* classification.
DelayCol == "delay_class"

required_columns ==
    {"partner_code", "partner_name", "item_code", "item_name",
     "variant_name", "order_no", "tracking_no"}

AllCols == required_columns \cup {DelayCol}

\* Partner names, listed in the order Python compares their strings.
NameOrder == <<"A", "B">>
Rank(name) == CHOOSE k \in 1..Len(NameOrder) : NameOrder[k] = name

TableNames == {"A", "B", NaN}
TableCodes == {PyInt(1010), PyFloat(2020, 0)}
ClsValues == {NaN, "", "late"}

RowValues == [name : TableNames, code : TableCodes, cls : ClsValues]
Tables == UNION {[1..n -> RowValues] : n \in 0..MaxRows}

\* Rosters of the dispatch pipeline: both partners listed by name; a row
\* that matches only by code; a row whose address cell is missing; nothing.
RosterByName ==
    <<[name |-> "A", code |-> PyString(<<"1", "0", "1", "0">>), email |-> "a@x"],
      [name |-> "B", code |-> PyString(<<"2", "0", "2", "0">>), email |-> "b@x"]>>
RosterByCode ==
    <<[name |-> "Z", code |-> PyString(<<"1", "0", "1", "0">>), email |-> "z@x"]>>
RosterNoAddress ==
    <<[name |-> "A", code |-> PyInt(1010), email |-> NaN]>>
Rosters == {RosterByName, RosterByCode, RosterNoAddress, <<>>}

\* The files in the two uploaders.  A table that lacks a column is never
\* read past its header, so one table stands for all of them.
Uploads ==
    {[cols |-> AllCols, rows |-> t, roster |-> r] : t \in Tables, r \in Rosters}
    \cup {[cols |-> c, rows |-> <<>>, roster |-> RosterByName] :
             c \in (SUBSET AllCols) \ {AllCols}}

\* The DataFrame of a table: every row with its index label.
DataFrame(rows) ==
    [k \in DOMAIN rows |->
        [idx |-> k, name |-> rows[k].name, code |-> rows[k].code,
         cls |-> rows[k].cls]]

\* ------------------------------------------------------- filter and grouper
\* isna() | == '' on the delay classification.
Undecided(row) == row.cls = NaN \/ row.cls = ""

\* The keys of groupby, sorted: a row whose key is missing is in no group.
GroupKeys(rows) ==
    {rows[k].name : k \in DOMAIN rows} \ {NaN}

RECURSIVE SortedKeys(_)
SortedKeys(S) ==
    IF S = {} THEN <<>>
    ELSE LET m == CHOOSE x \in S : \A y \in S : Rank(x) <= Rank(y)
         IN  <<m>> \o SortedKeys(S \ {m})

MailItem(mail_list, partner_name, group_df) ==
    [partner_name |-> partner_name,
     partner_code |-> group_df[1].code,
     email |-> get_partner_email(mail_list, partner_name, group_df[1].code),
     count |-> Len(group_df),
     df |-> group_df]

\* What one call returns or raises: raised is "none", "KeyError" or
\* "ValueError", cols the column names the exception reports, steps the
\* stages that ran, in order, filtered the number of rows the filter kept.
filter_and_process(cols, rows, mail_list) ==
    LET df == DataFrame(rows)
        filtered_df == SelectSeq(df, Undecided)
        missing_cols == required_columns \ cols
        keys == SortedKeys(GroupKeys(filtered_df))
        Group(name) == LET InGroup(row) == row.name = name
                       IN  SelectSeq(filtered_df, InGroup)
    IN  IF DelayCol \notin cols
        THEN [raised |-> "KeyError", cols |-> {DelayCol},
              steps |-> <<"filter">>, filtered |-> 0, mail_items |-> <<>>]
        ELSE IF missing_cols # {}
        THEN [raised |-> "ValueError", cols |-> missing_cols,
              steps |-> <<"filter", "check">>, filtered |-> Len(filtered_df),
              mail_items |-> <<>>]
        ELSE IF Len(filtered_df) = 0
        THEN [raised |-> "none", cols |-> {},
              steps |-> <<"filter", "check">>, filtered |-> 0,
              mail_items |-> <<>>]
        ELSE [raised |-> "none", cols |-> {},
              steps |-> <<"filter", "check", "group">>,
              filtered |-> Len(filtered_df),
              mail_items |->
                  [k \in 1..Len(keys) |->
                      MailItem(mail_list, keys[k], Group(keys[k]))]]

NotRun ==
    [raised |-> "not_run", cols |-> {}, steps |-> <<>>, filtered |-> 0,
     mail_items |-> <<>>]

\* ------------------------------------------------------ dispatch and ledger
\* `if item['email']`: None and '' are false, a missing cell (nan) is true.
HasEmail(item) == item.email # None /\ item.email # ""

\* mail_items.sort(key=lambda x: 0 if x['email'] else 1), a stable sort.
SortByEmail(items) ==
    LET NoEmail(item) == ~HasEmail(item)
    IN  SelectSeq(items, HasEmail) \o SelectSeq(items, NoEmail)

\* What the SMTP session does with one message: accepts it, or raises (here
\* while logging in).  A missing address cell (nan) is set as the To header
\* and cannot be written to the wire: the attempt is made and raises, in
\* login or in send_message.
ChannelErrors == {"authentication failed"}
ChannelOutcomes(item) ==
    IF item.email = NaN THEN ChannelErrors \cup {"recipient not encodable"}
    ELSE {"ok"} \cup ChannelErrors

\* (success, message) of one send, given what the channel does.
send_single_mail(mail_item, channel) ==
    IF ~HasEmail(mail_item)
    THEN [success |-> FALSE, msg |-> "No Email Address"]
    ELSE IF channel = "ok"
    THEN [success |-> TRUE, msg |-> "Sent"]
    ELSE [success |-> FALSE, msg |-> channel]

Header == [kind |-> "header"]

HistoryRow(item, row, status, msg) ==
    [kind |-> "row", partner_name |-> item.partner_name,
     partner_code |-> item.partner_code, order |-> row.idx,
     status |-> status, msg |-> msg]

\* The rows of one mail item.
ItemHistory(item, results) ==
    LET known == item.partner_name \in DOMAIN results
        status == IF known
                  THEN (IF results[item.partner_name].success
                        THEN "Success" ELSE "Fail")
                  ELSE "Skipped"
        msg == IF known THEN results[item.partner_name].msg
               ELSE "No Email / Excluded"
    IN  [k \in 1..Len(item.df) |-> HistoryRow(item, item.df[k], status, msg)]

RECURSIVE BuildHistory(_, _)
BuildHistory(items, results) ==
    IF items = <<>> THEN <<>>
    ELSE ItemHistory(Head(items), results) \o BuildHistory(Tail(items), results)

\* The file after an append of new_rows.
\* A variant that writes the header on every append.
WriteHistoryAlwaysHeader(file, new_rows) ==
    [exists |-> TRUE, lines |-> file.lines \o <<Header>> \o new_rows]
WriteHistory(file, new_rows) ==
    IF ~file.exists
    THEN [exists |-> TRUE, lines |-> <<Header>> \o new_rows]
    ELSE [exists |-> TRUE, lines |-> file.lines \o new_rows]

\* The rows built and the file left by one call.
save_history_log(file, items, results) ==
    LET history_rows == BuildHistory(items, results)
    IN  [history_rows |-> history_rows,
         file |-> IF history_rows = <<>> THEN file
                  ELSE WriteHistory(file, history_rows)]

\* -------------------------------------------------- address resolver inputs
LookupNames == {"A", "B"}
Code1010 == <<"1", "0", "1", "0">>
QueryCodes ==
    {PyString(Code1010), PyString(Code1010 \o <<".", "0">>), PyInt(1010),
     PyFloat(1010, 0), PyInt(2020), NaNCode, NoneCode, PyString(<<>>)}
RosterCodes ==
    {PyString(Code1010), PyString(Code1010 \o <<".", "0">>), PyInt(1010),
     PyFloat(1010, 0), PyInt(2020), NaNCode}
RosterKeys == [name : {"A", "B", NaN}, code : RosterCodes]

\* Row k of a roster carries address k, so an address names its row.
AddrBook == <<"r1@x", "r2@x", "r3@x", "r4@x">>
RosterOf(keys) ==
    [k \in DOMAIN keys |->
        [name |-> keys[k].name, code |-> keys[k].code, email |-> AddrBook[k]]]
LookupRosters ==
    {RosterOf(keys) : keys \in UNION {[1..n -> RosterKeys] : n \in 0..MaxRoster}}

\* ------------------------------------------- markup converter: table pass
\* Text is a sequence of characters; the only whitespace here is the space.
IsSpace(c) == c = " "

RECURSIVE LStrip(_)
LStrip(s) ==
    IF s = <<>> THEN <<>>
    ELSE IF IsSpace(Head(s)) THEN LStrip(Tail(s))
    ELSE s

RECURSIVE RStrip(_)
RStrip(s) ==
    IF s = <<>> THEN <<>>
    ELSE IF IsSpace(s[Len(s)]) THEN RStrip(SubSeq(s, 1, Len(s) - 1))
    ELSE s

\* s.strip()
Strip(s) == RStrip(LStrip(s))

\* s[1:-1]
Inner(s) == SubSeq(s, 2, Len(s) - 1)

HasPipe(s) == \E k \in DOMAIN s : s[k] = "|"
PipeEnds(s) == s # <<>> /\ s[1] = "|" /\ s[Len(s)] = "|"

\* The test that opens a table block, and the test that continues it.
OpensTable(line) == PipeEnds(Strip(line)) /\ HasPipe(Inner(Strip(line)))
ContinuesTable(line) == PipeEnds(Strip(line))

\* The number of lines, from line k on, that the inner loop takes.
RECURSIVE RunLength(_, _)
RunLength(lines, k) ==
    IF k > Len(lines) THEN 0
    ELSE IF ContinuesTable(lines[k]) THEN 1 + RunLength(lines, k + 1)
    ELSE 0

\* [c.strip() for c in s.split('|')]
RECURSIVE SplitPipe(_, _)
SplitPipe(s, cell) ==
    IF s = <<>> THEN <<Strip(cell)>>
    ELSE IF Head(s) = "|" THEN <<Strip(cell)>> \o SplitPipe(Tail(s), <<>>)
    ELSE SplitPipe(Tail(s), Append(cell, Head(s)))

Cells(table_line) == SplitPipe(Inner(table_line), <<>>)

\* An element of result_lines: a line of text, or the one-line HTML table
\* given by its header cells and its data rows (background and cells).
TextLine(text) ==
    [kind |-> "line", text |-> text, headers |-> <<>>, rows |-> <<>>]

AnyCell(cells) == \E k \in DOMAIN cells : cells[k] # <<>>

HtmlRows(data_rows) ==
    [k \in DOMAIN data_rows |->
        [bg |-> IF (k - 1) % 2 = 0 THEN "#ffffff" ELSE "#f8f9fa",
         cells |-> [c \in DOMAIN data_rows[k] |->
                       IF data_rows[k][c] # <<>> THEN data_rows[k][c]
                       ELSE <<"-">>]]]

HtmlTable(table_lines) ==
    LET all_rows == [k \in 1..(Len(table_lines) - 2) |-> Cells(table_lines[k + 2])]
    IN  [kind |-> "table", text |-> <<>>,
         headers |-> Cells(table_lines[1]),
         rows |-> HtmlRows(SelectSeq(all_rows, AnyCell))]

\* The least number of lines of a block that becomes a table.
MinTableLines == 3

\* result_lines of the table pass over lines, from line k on.
RECURSIVE TablePass(_, _)
TablePass(lines, k) ==
    IF k > Len(lines) THEN <<>>
    ELSE IF OpensTable(lines[k])
    THEN LET n == RunLength(lines, k)
             table_lines == [j \in 1..n |-> Strip(lines[k + j - 1])]
         IN  (IF n >= MinTableLines
              THEN <<HtmlTable(table_lines)>>
              ELSE [j \in 1..n |-> TextLine(table_lines[j])])
             \o TablePass(lines, k + n)
    ELSE <<TextLine(lines[k])>> \o TablePass(lines, k + 1)

\* The lines a message is made of: table rows with and without surrounding
\* whitespace, a row of empty cells, a lone pipe, a line that starts with a
\* pipe and does not end with one, text with and without surrounding
\* whitespace, an empty line.
MdLines ==
    {<<"|", "a", "|", "b", "|">>,
     <<" ", "|", "a", "|", "|", " ">>,
     <<"|", " ", "|", " ", "|">>,
     <<"|">>,
     <<"|", "a">>,
     <<"a">>,
     <<" ", "a", " ">>,
     <<>>}

MdTexts == UNION {[1..n -> MdLines] : n \in 1..MaxMdLines}

MdIdle == [lines |-> <<>>, result_lines |-> <<>>, done |-> TRUE]

\* ------------------------------------------------------------------- state
VARIABLES
    upload,         \* the files in the two uploaders: [cols, rows, roster]
    analysis,       \* what the last call of filter_and_process returned or raised
    mail_items,     \* st.session_state['mail_items']
    ready_to_send,  \* st.session_state['ready_to_send']
    pc,             \* "idle", or "sending" inside the send handler
    send_results,   \* the outcome map of the send handler
    valid_items,    \* the address-bearing items of the send handler
    i,              \* the send loop's position in valid_items, from 1
    success_cnt,
    fail_cnt,
    attempts,       \* the calls of send_single_mail in the current run
    history_rows,   \* the rows built by the last save_history_log
    history_file,   \* HISTORY_FILE: [exists, lines]
    runs,           \* finished dispatch runs
    notice,         \* the messages the last send click showed
    lk,             \* one call of get_partner_email: its arguments and result
    md              \* one call of markdown_to_html: its lines and result_lines

vars ==
    <<upload, analysis, mail_items, ready_to_send, pc, send_results,
      valid_items, i, success_cnt, fail_cnt, attempts, history_rows,
      history_file, runs, notice, lk, md>>

LkIdle ==
    [name |-> "A", code |-> NoneCode, roster |-> <<>>, result |-> None,
     done |-> TRUE]

InitSession ==
    /\ analysis = NotRun
    /\ mail_items = <<>>
    /\ ready_to_send = FALSE
    /\ pc = "idle"
    /\ send_results = <<>>
    /\ valid_items = <<>>
    /\ i = 1
    /\ success_cnt = 0
    /\ fail_cnt = 0
    /\ attempts = <<>>
    /\ history_rows = <<>>
    /\ runs = 0
    /\ notice = <<>>

NoFile == [exists |-> FALSE, lines |-> <<>>]

Init ==
    /\ upload \in Uploads
    /\ InitSession
    /\ history_file = NoFile
    /\ lk = LkIdle
    /\ md = MdIdle

\* The analyse button: filter_and_process, then the session is set only
\* when the call returned a non-empty list.
Analyze ==
    /\ pc = "idle"
    /\ LET r == filter_and_process(upload.cols, upload.rows, upload.roster)
       IN  /\ analysis' = r
           /\ IF r.raised = "none" /\ r.mail_items # <<>>
              THEN /\ mail_items' = SortByEmail(r.mail_items)
                   /\ ready_to_send' = TRUE
              ELSE UNCHANGED <<mail_items, ready_to_send>>
    /\ UNCHANGED <<upload, pc, send_results, valid_items, i, success_cnt,
                   fail_cnt, attempts, history_rows, history_file, runs,
                   notice, lk, md>>

SendOffered == pc = "idle" /\ ready_to_send /\ mail_items # <<>>

\* The send button with no Gmail account or password entered.
SendWithoutCredentials ==
    /\ SendOffered
    /\ notice' = <<"no credentials">>
    /\ UNCHANGED <<upload, analysis, mail_items, ready_to_send, pc,
                   send_results, valid_items, i, success_cnt, fail_cnt,
                   attempts, history_rows, history_file, runs, lk, md>>

\* The outcome map before the loop.
SkippedResults(items) ==
    [name \in {items[k].partner_name :
                  k \in {j \in DOMAIN items : ~HasEmail(items[j])}} |->
        [success |-> FALSE, msg |-> "No Email Address"]]
\* A variant that records nothing for the items without an address.
NoSkippedResults(items) == <<>>
InitialResults(items) == SkippedResults(items)

\* The send button: the handler up to its loop.
StartDispatch ==
    /\ SendOffered
    /\ runs < MaxRuns
    /\ pc' = "sending"
    /\ send_results' = InitialResults(mail_items)
    /\ valid_items' = SelectSeq(mail_items, HasEmail)
    /\ i' = 1
    /\ success_cnt' = 0
    /\ fail_cnt' = 0
    /\ attempts' = <<>>
    /\ notice' = IF SelectSeq(mail_items, HasEmail) = <<>>
                 THEN <<"no valid targets">> ELSE <<>>
    /\ UNCHANGED <<upload, analysis, mail_items, ready_to_send, history_rows,
                   history_file, runs, lk, md>>

\* The loop's position after an iteration.
\* A variant that leaves the loop at the first failure.
NextIndexBreakOnFail(k, success) ==
    IF success THEN k + 1 ELSE Len(valid_items) + 1
NextIndex(k, success) == k + 1

\* One iteration of the send loop.
SendOne ==
    /\ pc = "sending"
    /\ i <= Len(valid_items)
    /\ \E channel \in ChannelOutcomes(valid_items[i]) :
          LET item == valid_items[i]
              res == send_single_mail(item, channel)
          IN  /\ attempts' = Append(attempts,
                     [partner_name |-> item.partner_name, to |-> item.email,
                      channel |-> channel])
              /\ send_results' = (item.partner_name :> res) @@ send_results
              /\ success_cnt' = IF res.success THEN success_cnt + 1
                                ELSE success_cnt
              /\ fail_cnt' = IF res.success THEN fail_cnt ELSE fail_cnt + 1
              /\ notice' = IF res.success THEN notice
                           ELSE Append(notice, "failed")
              /\ i' = NextIndex(i, res.success)
    /\ UNCHANGED <<upload, analysis, mail_items, ready_to_send, pc,
                   valid_items, history_rows, history_file, runs, lk, md>>

\* After the loop: save_history_log and the closing message.
FinishDispatch ==
    /\ pc = "sending"
    /\ i > Len(valid_items)
    /\ LET saved == save_history_log(history_file, mail_items, send_results)
       IN  /\ history_rows' = saved.history_rows
           /\ history_file' = saved.file
    /\ pc' = "idle"
    /\ runs' = runs + 1
    /\ notice' = Append(notice, "done")
    /\ UNCHANGED <<upload, analysis, mail_items, ready_to_send, send_results,
                   valid_items, i, success_cnt, fail_cnt, attempts, lk, md>>

Next ==
    \/ Analyze
    \/ SendWithoutCredentials
    \/ StartDispatch
    \/ SendOne
    \/ FinishDispatch

Spec == Init /\ [][Next]_vars

\* ------------------------------------- runs over changing uploads and ledger
\* Uploads between which the user switches: two partners with addresses; one
\* partner without an address; a table with nothing undecided; a table
\* without the delay classification column.
LedgerUploads ==
    {[cols |-> AllCols,
      rows |-> <<[name |-> "A", code |-> PyInt(1010), cls |-> NaN],
                 [name |-> "B", code |-> PyFloat(2020, 0), cls |-> ""]>>,
      roster |-> RosterByName],
     [cols |-> AllCols,
      rows |-> <<[name |-> "A", code |-> PyInt(1010), cls |-> NaN]>>,
      roster |-> <<>>],
     [cols |-> AllCols,
      rows |-> <<[name |-> "A", code |-> PyInt(1010), cls |-> "late"]>>,
      roster |-> RosterByName],
     [cols |-> AllCols \ {DelayCol}, rows |-> <<>>, roster |-> RosterByName]}

\* The ledger a session finds: none, or the file an earlier session left.
PriorLedgers ==
    {NoFile,
     [exists |-> TRUE,
      lines |-> <<Header,
                  [kind |-> "row", partner_name |-> "B",
                   partner_code |-> PyInt(1010), order |-> 1,
                   status |-> "Success", msg |-> "Sent"]>>]}

InitLedger ==
    /\ upload \in LedgerUploads
    /\ InitSession
    /\ history_file \in PriorLedgers
    /\ lk = LkIdle
    /\ md = MdIdle

\* Other files are put in the uploaders; the session is left as it is.
Reupload ==
    /\ pc = "idle"
    /\ upload' \in LedgerUploads
    /\ UNCHANGED <<analysis, mail_items, ready_to_send, pc, send_results,
                   valid_items, i, success_cnt, fail_cnt, attempts,
                   history_rows, history_file, runs, notice, lk, md>>

NextLedger ==
    \/ Reupload
    \/ Analyze
    \/ SendWithoutCredentials
    \/ StartDispatch
    \/ SendOne
    \/ FinishDispatch

SpecLedger == InitLedger /\ [][NextLedger]_vars

\* ------------------------------------------- the address resolver on its own
InitLookup ==
    /\ upload = [cols |-> AllCols, rows |-> <<>>, roster |-> <<>>]
    /\ InitSession
    /\ history_file = NoFile
    /\ lk \in [name : LookupNames, code : QueryCodes, roster : LookupRosters,
               result : {None}, done : {FALSE}]
    /\ md = MdIdle

Resolve ==
    /\ ~lk.done
    /\ lk' = [lk EXCEPT
                 !.result = get_partner_email(lk.roster, lk.name, lk.code),
                 !.done = TRUE]
    /\ UNCHANGED <<upload, analysis, mail_items, ready_to_send, pc,
                   send_results, valid_items, i, success_cnt, fail_cnt,
                   attempts, history_rows, history_file, runs, notice, md>>

NextLookup == Resolve

SpecLookup == InitLookup /\ [][NextLookup]_vars

\* ------------------------------------------- the table pass on its own
InitMarkdown ==
    /\ upload = [cols |-> AllCols, rows |-> <<>>, roster |-> <<>>]
    /\ InitSession
    /\ history_file = NoFile
    /\ lk = LkIdle
    /\ md \in [lines : MdTexts, result_lines : {<<>>}, done : {FALSE}]

\* markdown_to_html up to the join of result_lines.
ConvertTables ==
    /\ ~md.done
    /\ md' = [md EXCEPT !.result_lines = TablePass(md.lines, 1), !.done = TRUE]
    /\ UNCHANGED <<upload, analysis, mail_items, ready_to_send, pc,
                   send_results, valid_items, i, success_cnt, fail_cnt,
                   attempts, history_rows, history_file, runs, notice, lk>>

NextMarkdown == ConvertTables

SpecMarkdown == InitMarkdown /\ [][NextMarkdown]_vars

\* ------------------------------------------------------------------ claims
ItemNames(items) == {items[k].partner_name : k \in DOMAIN items}
LedgerRows == {k \in DOMAIN history_file.lines : history_file.lines[k].kind = "row"}
UndecidedRows == {k \in DOMAIN upload.rows : upload.rows[k].cls \in {NaN, ""}}
RunDone == pc = "idle" /\ runs > 0
LoopFinished == pc = "sending" /\ i > Len(valid_items)

\* C1: a mail item whose resolved address is absent or empty is never passed
\* to send_single_mail, and every ledger row written for its records carries
\* the send result Skipped.
C1_AddressLessIsSkipped ==
    \A k \in DOMAIN mail_items :
        mail_items[k].email \in {None, ""} =>
            /\ \A a \in DOMAIN attempts :
                   attempts[a].partner_name # mail_items[k].partner_name
            /\ \A h \in LedgerRows :
                   history_file.lines[h].partner_name = mail_items[k].partner_name
                       => history_file.lines[h].status = "Skipped"

\* C2: the number of ledger rows one dispatch run appends equals the number
\* of records of the table whose delay classification was empty or missing.
C2_OneEntryPerUndecidedRecord ==
    RunDone =>
        /\ Len(history_rows) = Cardinality(UndecidedRows)
        /\ Cardinality(LedgerRows) = runs * Cardinality(UndecidedRows)

\* C3: the send loop calls send_single_mail once for every address-bearing
\* item, in list order; each call's outcome, a failure with its error text
\* included, is recorded under that item's name, and a failure does not stop
\* the loop.
C3_OneAttemptEachInOrder ==
    pc = "sending" \/ RunDone =>
        /\ i \in 1..(Len(valid_items) + 1)
        /\ Len(attempts) = i - 1
        /\ \A k \in DOMAIN attempts :
               /\ attempts[k].partner_name = valid_items[k].partner_name
               /\ send_results[attempts[k].partner_name] =
                      [success |-> attempts[k].channel = "ok",
                       msg |-> IF attempts[k].channel = "ok" THEN "Sent"
                               ELSE attempts[k].channel]
        /\ \A j, k \in DOMAIN attempts :
               attempts[j].partner_name = attempts[k].partner_name => j = k
        /\ RunDone => Len(attempts) = Len(valid_items)

\* A run of two address-bearing items whose first send failed and whose
\* second send was made and accepted.
C3_Witness ==
    /\ RunDone
    /\ Len(valid_items) = 2
    /\ Len(attempts) = 2
    /\ attempts[1].channel # "ok"
    /\ attempts[2].channel = "ok"
    /\ ~send_results[valid_items[1].partner_name].success
    /\ send_results[valid_items[2].partner_name].success

\* C4: the mail items filter_and_process returns partition the undecided
\* records: each undecided record is in the group of exactly one item, no
\* group is empty, partner names are pairwise distinct, each group keeps the
\* table's row order, and the items are in ascending partner-name order.
C4_GroupingIsPartition ==
    analysis.raised = "none" =>
        LET items == analysis.mail_items
            Holders(u) == {<<k, j>> \in (DOMAIN items) \X (1..(MaxRows + 1)) :
                              j \in DOMAIN items[k].df /\ items[k].df[j].idx = u}
        IN  /\ \A u \in UndecidedRows : Cardinality(Holders(u)) = 1
            /\ \A k \in DOMAIN items : Len(items[k].df) > 0
            /\ \A j, k \in DOMAIN items :
                   items[j].partner_name = items[k].partner_name => j = k
            /\ \A k \in DOMAIN items : \A a, b \in DOMAIN items[k].df :
                   a < b => items[k].df[a].idx < items[k].df[b].idx
            /\ \A j, k \in DOMAIN items :
                   j < k => Rank(items[j].partner_name) < Rank(items[k].partner_name)

NameHits == {k \in DOMAIN lk.roster : lk.roster[k].name = lk.name}
Min(S) == CHOOSE x \in S : \A y \in S : x <= y

\* C5: when some roster row carries the given partner name, the result is the
\* address of the first such row, whatever rows match the partner code.
C5_NameMatchWins ==
    lk.done /\ NameHits # {} => lk.result = lk.roster[Min(NameHits)].email

\* The name matches the second row only, the code matches the first row, and
\* the second row's address is returned.
C5_Witness ==
    /\ lk.done
    /\ Len(lk.roster) = 2
    /\ NameHits = {2}
    /\ lk.code = PyInt(1010)
    /\ lk.roster[1].code = PyInt(1010)
    /\ lk.result = AddrBook[2]

Is1010(v) ==
    v \in {PyString(Code1010), PyString(Code1010 \o <<".", "0">>), PyInt(1010),
           PyFloat(1010, 0)}
Hits1010 == {k \in DOMAIN lk.roster : Is1010(lk.roster[k].code)}

\* C6: with no roster row matching by name, a partner code that is "1010" or
\* "1010.0", as a string, an integer or a float, resolves to the address of
\* the first roster row whose code is any of these forms.
C6_CodeFormsAreOneKey ==
    lk.done /\ NameHits = {} /\ Is1010(lk.code) /\ Hits1010 # {}
        => lk.result = lk.roster[Min(Hits1010)].email

\* The code arrives as the string "1010.0", the first roster row is coded
\* "1010" under another name, and that row's address is returned.
C6_Witness ==
    /\ lk.done
    /\ NameHits = {}
    /\ lk.code = PyString(Code1010 \o <<".", "0">>)
    /\ Len(lk.roster) >= 1
    /\ lk.roster[1].code = PyString(Code1010)
    /\ lk.result = AddrBook[1]

\* C7: when a required column (the delay classification included) is absent,
\* filter_and_process raises an error that reports the absent columns, the
\* check runs before the filter, and no mail item is produced.
C7_MissingColumnsReported ==
    analysis.raised # "not_run" /\ AllCols \ upload.cols # {} =>
        /\ analysis.raised # "none"
        /\ analysis.cols = AllCols \ upload.cols
        /\ analysis.steps = <<"check">>
        /\ analysis.mail_items = <<>>
        /\ mail_items = <<>>

HeaderLines(lines) == {k \in DOMAIN lines : lines[k] = Header}

\* C8: the ledger is append-only with a single header: once the file exists
\* every step leaves its earlier lines as a prefix, and the file, when it
\* exists, starts with the only header line it holds.
C8_LedgerAppendOnly ==
    [][/\ history_file.exists =>
              /\ history_file'.exists
              /\ Len(history_file'.lines) >= Len(history_file.lines)
              /\ SubSeq(history_file'.lines, 1, Len(history_file.lines))
                     = history_file.lines
       /\ history_file'.exists =>
              /\ history_file'.lines # <<>>
              /\ HeaderLines(history_file'.lines) = {1}
       /\ ~history_file'.exists => history_file'.lines = <<>>]_vars

\* Two runs have finished on a file that did not exist before: the header,
\* then the rows of the first run, then the different rows of the second.
C8_Witness ==
    /\ RunDone
    /\ runs = 2
    /\ history_file.exists
    /\ history_rows # <<>>
    /\ Len(history_file.lines) > 1 + Len(history_rows)
    /\ history_file.lines[1] = Header
    /\ history_file.lines[2].msg # "Sent"
    /\ history_file.lines[2] # history_rows[1]
    /\ SubSeq(history_file.lines,
              Len(history_file.lines) - Len(history_rows) + 1,
              Len(history_file.lines)) = history_rows

\* C9: the ledger changes only when the send loop has finished for every
\* address-bearing item, the append follows the loop whether or not a send
\* succeeded, and at the append the outcome map holds one outcome for every
\* mail item, keyed by partner name.
C9_AppendAfterLoop ==
    [][/\ history_file' # history_file =>
              /\ LoopFinished
              /\ Len(attempts) = Len(valid_items)
              /\ ItemNames(valid_items) =
                     {attempts[k].partner_name : k \in DOMAIN attempts}
              /\ DOMAIN send_results = ItemNames(mail_items)
              /\ Cardinality(DOMAIN send_results) = Len(mail_items)
       /\ LoopFinished =>
              /\ ENABLED FinishDispatch
              /\ history_file' # history_file
              /\ Len(history_file'.lines) > Len(history_file.lines)
              /\ runs' = runs + 1]_vars

\* A finished run with no address-bearing item, whose rows are in the file.
C9_Witness ==
    /\ RunDone
    /\ valid_items = <<>>
    /\ success_cnt = 0
    /\ history_file.exists
    /\ Len(history_rows) > 0

\* C10: for a partner code that is empty or missing, with no roster row
\* matching by name, the result is an absent address.
C10_NoFallbackOnMissingCode ==
    lk.done /\ NameHits = {} /\ lk.code \in {NaNCode, NoneCode, PyString(<<>>)}
        => lk.result = None

TablesOut == {k \in DOMAIN md.result_lines : md.result_lines[k].kind = "table"}
PipeRunOfThree ==
    \E k \in DOMAIN md.lines :
        /\ k + 2 <= Len(md.lines)
        /\ \A j \in k..(k + 2) : PipeEnds(Strip(md.lines[j]))

\* C11: the table pass emits an HTML table only for a run of at least three
\* pipe-delimited lines, and every line of a shorter run, like every line
\* outside a table block, is emitted exactly as it was in the input, its
\* leading and trailing whitespace included.
C11_ShortRunsPassUnchanged ==
    md.done =>
        /\ TablesOut # {} => PipeRunOfThree
        /\ TablesOut = {} =>
               md.result_lines = [k \in DOMAIN md.lines |-> TextLine(md.lines[k])]

====
